---- MODULE Spec2Model ----
(***************************************************************************)
(* The Product API of main.py: an in-memory list of products, a module     *)
(* level id counter, and the request handlers that read and change them.   *)
(* Every request goes through the framework's validation of the path       *)
(* parameter and of the JSON body before its handler runs.                 *)
(*                                                                         *)
(* Encoding of Python values: None is the empty tuple <<>>, any other      *)
(* value v is the one-element tuple <<v>>.  A JSON body is a function      *)
(* from the keys the client sent to such values, so a key that is absent   *)
(* differs from a key sent as null.  Prices are counted in hundredths.     *)
(***************************************************************************)
EXTENDS Integers, Sequences, FiniteSets, TLC

VARIABLES
    products,   \* the list products
    next_id,    \* the counter _next_id
    request,    \* the request the last handler was called with
    response,   \* what that handler returned or raised, before serialisation
    handled,    \* number of requests handled so far
    assigned,   \* history: every id a product was ever constructed with
    deleted,    \* history: every id delete_product removed
    tasks,      \* event loop: the coroutines of the requests in flight
    running     \* event loop: the coroutine that holds the thread, or 0

vars == <<products, next_id, request, response, handled, assigned, deleted,
          tasks, running>>

None == <<>>

Some(v) == <<v>>

\* ------------------------------------------------------------ bounds

\* At most this many requests are handled one after the other in one run.
MaxRequests == 3

\* Number of create requests in flight at once on the event loop.
NumTasks == 3

\* ------------------------------------------------------------ constants

MinNameLen == 1

MaxNameLen == 100

MaxDescLen == 255

HTTP_200_OK == 200

HTTP_201_CREATED == 201

HTTP_204_NO_CONTENT == 204

HTTP_404_NOT_FOUND == 404

HTTP_422_UNPROCESSABLE == 422

\* ------------------------------------------------------------ models

Fields == {"name", "description", "price", "quantity"}

\* ProductBase: name is required, 1..100 characters; description is optional,
\* at most 255 characters; price is required and > 0; quantity is required
\* and >= 0.  A key the model does not declare is ignored.
ProductBaseValid(body) ==
    /\ "name" \in DOMAIN body
    /\ body["name"] # None
    /\ Len(body["name"][1]) >= MinNameLen
    /\ Len(body["name"][1]) <= MaxNameLen
    /\ \/ "description" \notin DOMAIN body
       \/ body["description"] = None
       \/ Len(body["description"][1]) <= MaxDescLen
    /\ "price" \in DOMAIN body
    /\ body["price"] # None
    /\ body["price"][1] > 0
    /\ "quantity" \in DOMAIN body
    /\ body["quantity"] # None
    /\ body["quantity"][1] >= 0

\* ProductUpdate: every field is optional and may be null; name and
\* description carry no constraint; the constraints of price and quantity
\* apply to a value that is not null.
ProductUpdateValid(body) ==
    /\ \/ "price" \notin DOMAIN body
       \/ body["price"] = None
       \/ body["price"][1] > 0
    /\ \/ "quantity" \notin DOMAIN body
       \/ body["quantity"] = None
       \/ body["quantity"][1] >= 0

\* Path(gt=0)
PathValid(product_id) == product_id > 0

\* product_data.dict() of a ProductCreate: every declared field, an absent
\* description as its default None, undeclared keys dropped.
CreateDict(body) ==
    [f \in Fields |-> IF f \in DOMAIN body THEN body[f] ELSE None]

\* A variant that forgets exclude_unset: every declared field, the ones the
\* client did not send as their default None.
UpdateDictAllFields(body) ==
    [f \in Fields |-> IF f \in DOMAIN body THEN body[f] ELSE None]

\* product_data.dict(exclude_unset=True) of a ProductUpdate: the declared
\* fields the client sent, and only those.
UpdateDict(body) ==
    [f \in (DOMAIN body) \cap Fields |-> body[f]]

\* Product(id=product_id, **fields)
NewProduct(product_id, fields) ==
    [id |-> product_id, name |-> fields["name"],
     description |-> fields["description"], price |-> fields["price"],
     quantity |-> fields["quantity"]]

\* existing.copy(update=updated_fields): the fields of the update replace
\* those of the copy, without validation.
CopyUpdate(existing, updated_fields) ==
    [k \in DOMAIN existing |->
        IF k \in DOMAIN updated_fields THEN updated_fields[k] ELSE existing[k]]

\* ------------------------------------------------------------ fake db

SeedProducts ==
    << [id |-> 1, name |-> Some("Phone"), description |-> Some("A smartphone"),
        price |-> Some(69999), quantity |-> Some(50)],
       [id |-> 2, name |-> Some("Laptop"), description |-> Some("A powerful laptop"),
        price |-> Some(99999), quantity |-> Some(30)],
       [id |-> 3, name |-> Some("Pen"), description |-> Some("A blue ink pen"),
        price |-> Some(199), quantity |-> Some(100)],
       [id |-> 4, name |-> Some("Table"), description |-> Some("A wooden table"),
        price |-> Some(19999), quantity |-> Some(20)] >>

\* _next_id = len(products) + 1
SeedNextId == Len(SeedProducts) + 1

Ids(seq) == {seq[i].id : i \in 1..Len(seq)}

\* A variant that indexes the list with the -1 of a failed search, which in
\* Python is the last element.
ScanOrLast(seq, product_id) ==
    IF \E i \in 1..Len(seq) : seq[i].id = product_id
    THEN CHOOSE i \in 1..Len(seq) :
            /\ seq[i].id = product_id
            /\ \A j \in 1..(i - 1) : seq[j].id # product_id
    ELSE Len(seq)

\* The index of the first product with this id, 0 when there is none: the
\* for loop over the list of every id-addressed handler.
Scan(seq, product_id) ==
    IF \E i \in 1..Len(seq) : seq[i].id = product_id
    THEN CHOOSE i \in 1..Len(seq) :
            /\ seq[i].id = product_id
            /\ \A j \in 1..(i - 1) : seq[j].id # product_id
    ELSE 0

\* A variant that removes the last element, as products.pop() would.
DelLast(seq, i) == SubSeq(seq, 1, Len(seq) - 1)

\* del products[i]
DelAt(seq, i) ==
    [j \in 1..(Len(seq) - 1) |-> IF j < i THEN seq[j] ELSE seq[j + 1]]

\* A variant that removes the old record and appends the new one.
SetAtEnd(seq, i, product) == Append(DelAt(seq, i), product)

\* products[i] = updated
SetAt(seq, i, product) == [seq EXCEPT ![i] = product]

\* A variant that inserts the new product at the front of the list.
InsertFirst(seq, product) == <<product>> \o seq

\* products.append(product)
AppendProduct(seq, product) == Append(seq, product)

\* A variant that derives the new id from the current length of the list.
AssignIdByLength == Len(products) + 1

\* id=_next_id
AssignId == next_id

\* A variant that leaves the counter where it was.
NoIncrement(n) == n

\* _next_id += 1
Increment(n) == n + 1

\* ------------------------------------------------------------ inputs

Name100 == "NNNNNNNNNNNNNNNNNNNNNNNNNNNNNNNNNNNNNNNNNNNNNNNNNNNNNNNNNNNNNNNNNNNNNNNNNNNNNNNNNNNNNNNNNNNNNNNNNNNN"

Name101 == "NNNNNNNNNNNNNNNNNNNNNNNNNNNNNNNNNNNNNNNNNNNNNNNNNNNNNNNNNNNNNNNNNNNNNNNNNNNNNNNNNNNNNNNNNNNNNNNNNNNNN"

Desc256 == "DDDDDDDDDDDDDDDDDDDDDDDDDDDDDDDDDDDDDDDDDDDDDDDDDDDDDDDDDDDDDDDDDDDDDDDDDDDDDDDDDDDDDDDDDDDDDDDDDDDDDDDDDDDDDDDDDDDDDDDDDDDDDDDDDDDDDDDDDDDDDDDDDDDDDDDDDDDDDDDDDDDDDDDDDDDDDDDDDDDDDDDDDDDDDDDDDDDDDDDDDDDDDDDDDDDDDDDDDDDDDDDDDDDDDDDDDDDDDDDDDDDDDDDDDDDDDDDD"

EmptyBody == [k \in {} |-> None]

CupBody == [name |-> Some("Cup"), price |-> Some(500), quantity |-> Some(10)]

MugBody ==
    [name |-> Some(Name100), description |-> Some("A mug"), price |-> Some(1),
     quantity |-> Some(0), id |-> Some(1)]

ValidBodies == {CupBody, MugBody}

ZeroPriceBody == [name |-> Some("Cup"), price |-> Some(0), quantity |-> Some(10)]

InvalidBodies ==
    { [name |-> Some(""), price |-> Some(500), quantity |-> Some(10)],
      [name |-> Some(Name101), price |-> Some(500), quantity |-> Some(10)],
      [name |-> None, price |-> Some(500), quantity |-> Some(10)],
      ZeroPriceBody,
      [name |-> Some("Cup"), price |-> Some(500), quantity |-> Some(-1)],
      [name |-> Some("Cup"), description |-> Some(Desc256), price |-> Some(500),
       quantity |-> Some(10)],
      [name |-> Some("Cup"), quantity |-> Some(10)] }

CreateBodies == ValidBodies \cup InvalidBodies

PricePatch == [price |-> Some(250)]

ValidPatches ==
    { EmptyBody,
      PricePatch,
      [price |-> None, quantity |-> None],
      [name |-> None],
      [name |-> Some(""), description |-> Some(Desc256)],
      [name |-> Some(Name101)],
      [id |-> Some(1), name |-> Some("Desk"), description |-> None,
       quantity |-> Some(0)] }

InvalidPatches == { [price |-> Some(0)], [quantity |-> Some(-1)] }

\* The ids requests address: 0 (refused by the path validation), every id
\* assigned so far, and the next one, which no product has yet.
IdPool == 0..next_id

\* A body that validation refuses is refused whatever the id: it is sent
\* with one id only, and the id 0 with one body only.
ReplaceInputs ==
    ((1..next_id) \X ValidBodies) \cup {<<1, ZeroPriceBody>>, <<0, CupBody>>}

PatchInputs ==
    ((1..next_id) \X ValidPatches) \cup ({1} \X InvalidPatches)
        \cup {<<0, PricePatch>>}

\* ------------------------------------------------------------ state

NoRequest == [op |-> "NONE", id |-> 0, body |-> EmptyBody]

NoResponse == [status |-> 0, product |-> None, detail |-> ""]

Ok(code, product) == [status |-> code, product |-> Some(product), detail |-> ""]

NoContent == [status |-> HTTP_204_NO_CONTENT, product |-> None, detail |-> ""]

NotFound ==
    [status |-> HTTP_404_NOT_FOUND, product |-> None, detail |-> "Product not found"]

Unprocessable ==
    [status |-> HTTP_422_UNPROCESSABLE, product |-> None, detail |-> "validation error"]

Init ==
    /\ products = SeedProducts
    /\ next_id = SeedNextId
    /\ request = NoRequest
    /\ response = NoResponse
    /\ handled = 0
    /\ assigned = Ids(SeedProducts)
    /\ deleted = {}
    /\ tasks = <<>>
    /\ running = 0

\* ------------------------------------------------------------ endpoints
\* Each action is one request: the framework's validation, then the whole
\* handler.  The id 0 of a request stands for a route without an id.

\* GET /products/{product_id}
get_product_by_id(product_id) ==
    LET i == Scan(products, product_id) IN
    /\ handled < MaxRequests
    /\ handled' = handled + 1
    /\ request' = [op |-> "GET", id |-> product_id, body |-> EmptyBody]
    /\ response' = IF ~PathValid(product_id) THEN Unprocessable
                   ELSE IF i = 0 THEN NotFound
                   ELSE Ok(HTTP_200_OK, products[i])
    /\ UNCHANGED <<products, next_id, assigned, deleted, tasks, running>>

\* POST /products/
create_product(body) ==
    LET valid == ProductBaseValid(body)
        product == NewProduct(AssignId, CreateDict(body))
    IN
    /\ handled < MaxRequests
    /\ handled' = handled + 1
    /\ request' = [op |-> "POST", id |-> 0, body |-> body]
    /\ IF ~valid
       THEN /\ response' = Unprocessable
            /\ UNCHANGED <<products, next_id, assigned>>
       ELSE /\ products' = AppendProduct(products, product)
            /\ next_id' = Increment(next_id)
            /\ assigned' = assigned \cup {product.id}
            /\ response' = Ok(HTTP_201_CREATED, product)
    /\ UNCHANGED <<deleted, tasks, running>>

\* PUT /products/{product_id}
replace_product(product_id, body) ==
    LET valid == PathValid(product_id) /\ ProductBaseValid(body)
        i == Scan(products, product_id)
        updated == NewProduct(product_id, CreateDict(body))
    IN
    /\ handled < MaxRequests
    /\ handled' = handled + 1
    /\ request' = [op |-> "PUT", id |-> product_id, body |-> body]
    /\ IF ~valid
       THEN /\ response' = Unprocessable
            /\ UNCHANGED <<products, assigned>>
       ELSE IF i = 0
       THEN /\ response' = NotFound
            /\ UNCHANGED <<products, assigned>>
       ELSE /\ products' = SetAt(products, i, updated)
            /\ assigned' = assigned \cup {updated.id}
            /\ response' = Ok(HTTP_200_OK, updated)
    /\ UNCHANGED <<next_id, deleted, tasks, running>>

\* PATCH /products/{product_id}
update_product(product_id, body) ==
    LET valid == PathValid(product_id) /\ ProductUpdateValid(body)
        i == Scan(products, product_id)
        updated_fields == UpdateDict(body)
        updated == CopyUpdate(products[i], updated_fields)
    IN
    /\ handled < MaxRequests
    /\ handled' = handled + 1
    /\ request' = [op |-> "PATCH", id |-> product_id, body |-> body]
    /\ IF ~valid
       THEN /\ response' = Unprocessable
            /\ UNCHANGED <<products, assigned>>
       ELSE IF i = 0
       THEN /\ response' = NotFound
            /\ UNCHANGED <<products, assigned>>
       ELSE /\ products' = SetAt(products, i, updated)
            /\ assigned' = assigned \cup {updated.id}
            /\ response' = Ok(HTTP_200_OK, updated)
    /\ UNCHANGED <<next_id, deleted, tasks, running>>

\* DELETE /products/{product_id}
delete_product(product_id) ==
    LET valid == PathValid(product_id)
        i == Scan(products, product_id)
    IN
    /\ handled < MaxRequests
    /\ handled' = handled + 1
    /\ request' = [op |-> "DELETE", id |-> product_id, body |-> EmptyBody]
    /\ IF ~valid
       THEN /\ response' = Unprocessable
            /\ UNCHANGED <<products, deleted>>
       ELSE IF i = 0
       THEN /\ response' = NotFound
            /\ UNCHANGED <<products, deleted>>
       ELSE /\ products' = DelAt(products, i)
            /\ deleted' = deleted \cup {product_id}
            /\ response' = NoContent
    /\ UNCHANGED <<next_id, assigned, tasks, running>>

Next ==
    \/ \E product_id \in IdPool : get_product_by_id(product_id)
    \/ \E body \in CreateBodies : create_product(body)
    \/ \E input \in ReplaceInputs : replace_product(input[1], input[2])
    \/ \E input \in PatchInputs : update_product(input[1], input[2])
    \/ \E product_id \in IdPool : delete_product(product_id)

Spec == Init /\ [][Next]_vars

\* ------------------------------------------------------------ event loop
\* The handlers are coroutines (async def) that one thread runs: a coroutine
\* that holds the thread keeps it until it awaits or returns.  Here NumTasks
\* create requests, already validated, are in flight at once, and
\* create_product is taken one statement at a time.

\* A variant with an await between building the product and appending it.
AwaitBeforeAppend == {"append"}

\* The statements of create_product at which the coroutine awaits: none.
AwaitPoints == {}

TaskIds == 1..NumTasks

InitTasks ==
    /\ products = SeedProducts
    /\ next_id = SeedNextId
    /\ request = NoRequest
    /\ response = NoResponse
    /\ handled = 0
    /\ assigned = Ids(SeedProducts)
    /\ deleted = {}
    /\ tasks \in [TaskIds -> [pc : {"ready"}, body : ValidBodies, product : {None}]]
    /\ running = 0

\* After a statement the coroutine goes on, unless the next one awaits.
Holds(t, pc) == IF pc \in AwaitPoints THEN 0 ELSE t

\* The loop gives the thread to a coroutine that is ready or suspended.
loop_run(t) ==
    /\ running = 0
    /\ tasks[t].pc # "done"
    /\ running' = t
    /\ tasks' = [tasks EXCEPT ![t].pc = IF @ = "ready" THEN "construct" ELSE @]
    /\ UNCHANGED <<products, next_id, request, response, handled, assigned, deleted>>

\* product = Product(id=_next_id, **product_data.dict())
create_construct(t) ==
    /\ running = t
    /\ tasks[t].pc = "construct"
    /\ tasks' = [tasks EXCEPT ![t].pc = "append",
                              ![t].product = Some(NewProduct(AssignId, CreateDict(tasks[t].body)))]
    /\ assigned' = assigned \cup {AssignId}
    /\ running' = Holds(t, "append")
    /\ UNCHANGED <<products, next_id, request, response, handled, deleted>>

\* products.append(product)
create_append(t) ==
    /\ running = t
    /\ tasks[t].pc = "append"
    /\ products' = AppendProduct(products, tasks[t].product[1])
    /\ tasks' = [tasks EXCEPT ![t].pc = "increment"]
    /\ running' = Holds(t, "increment")
    /\ UNCHANGED <<next_id, request, response, handled, assigned, deleted>>

\* _next_id += 1
create_increment(t) ==
    /\ running = t
    /\ tasks[t].pc = "increment"
    /\ next_id' = Increment(next_id)
    /\ tasks' = [tasks EXCEPT ![t].pc = "return"]
    /\ running' = Holds(t, "return")
    /\ UNCHANGED <<products, request, response, handled, assigned, deleted>>

\* return product
create_return(t) ==
    /\ running = t
    /\ tasks[t].pc = "return"
    /\ tasks' = [tasks EXCEPT ![t].pc = "done"]
    /\ request' = [op |-> "POST", id |-> 0, body |-> tasks[t].body]
    /\ response' = Ok(HTTP_201_CREATED, tasks[t].product[1])
    /\ handled' = handled + 1
    /\ running' = 0
    /\ UNCHANGED <<products, next_id, assigned, deleted>>

NextTasks ==
    \/ \E t \in TaskIds : loop_run(t)
    \/ \E t \in TaskIds : create_construct(t)
    \/ \E t \in TaskIds : create_append(t)
    \/ \E t \in TaskIds : create_increment(t)
    \/ \E t \in TaskIds : create_return(t)

SpecTasks == InitTasks /\ [][NextTasks]_vars

\* ------------------------------------------------------------ properties

\* The fields of a stored product are those of the body it was built from,
\* a field the body does not name being None.
FieldsFrom(product, body) ==
    \A f \in Fields : product[f] = IF f \in DOMAIN body THEN body[f] ELSE None

\* C1: after any sequence of create, replace, patch and delete requests,
\* successful or failing, no two products of the list have the same id.
C1_UniqueIds ==
    \A i, j \in 1..Len(products) : i # j => products[i].id # products[j].id

\* A create and a delete have happened, and the last request was a
\* successful patch whose body named the id of another product.
C1_Witness ==
    /\ request.op = "PATCH"
    /\ response.status = HTTP_200_OK
    /\ "id" \in DOMAIN request.body
    /\ request.body["id"][1] # request.id
    /\ deleted # {}
    /\ Len(products) = Len(SeedProducts)

\* C2: the id a create assigns is greater than every id assigned before it,
\* the seeded ids and the ids of deleted products included; the first create
\* returns 5; only a successful create changes the counter.
C2_IdsNeverReused ==
    [][ /\ (request'.op = "POST" /\ response'.status = HTTP_201_CREATED) =>
              /\ \A a \in assigned : response'.product[1].id > a
              /\ \A d \in deleted : response'.product[1].id # d
              /\ (assigned = 1..4) => response'.product[1].id = 5
        /\ (next_id' # next_id) =>
              /\ request'.op = "POST"
              /\ response'.status = HTTP_201_CREATED
      ]_vars

\* The scenario of the specification: create (id 5), delete 3, create: the
\* second create returned 6.
C2_Witness ==
    /\ request.op = "POST"
    /\ response.status = HTTP_201_CREATED
    /\ response.product[1].id = 6
    /\ 3 \in deleted

\* C3: every stored product has a price > 0 and a quantity >= 0, also after
\* a patch that sends price or quantity as null.
C3_PriceQuantityValid ==
    \A i \in 1..Len(products) :
        /\ products[i].price # None
        /\ products[i].price[1] > 0
        /\ products[i].quantity # None
        /\ products[i].quantity[1] >= 0

\* C4: every stored product has a name that is not null and is 1 to 100
\* characters long, also after a patch that sends a name.
C4_NameValid ==
    \A i \in 1..Len(products) :
        /\ products[i].name # None
        /\ Len(products[i].name[1]) >= 1
        /\ Len(products[i].name[1]) <= 100

\* C5: a get, replace, patch or delete request that passed validation and
\* whose positive id no product has is answered 404, and leaves the list and
\* the counter as they were.
C5_AbsentIdNotFound ==
    [][ ( /\ request'.id > 0
          /\ request'.id \notin Ids(products)
          /\ \/ request'.op \in {"GET", "DELETE"}
             \/ request'.op = "PUT" /\ request'.body \in ValidBodies
             \/ request'.op = "PATCH" /\ request'.body \in ValidPatches )
        => /\ response'.status = HTTP_404_NOT_FOUND
           /\ response'.product = None
           /\ products' = products
           /\ next_id' = next_id
      ]_vars

\* A replace of an id that was deleted before was answered 404.
C5_Witness ==
    /\ request.op = "PUT"
    /\ request.id \in deleted
    /\ request.body \in ValidBodies
    /\ response.status = HTTP_404_NOT_FOUND
    /\ Len(products) < Len(SeedProducts)

\* C6: a successful patch overwrites the fields its body names, a field
\* named as null included, and leaves the fields it does not name, the id,
\* the position and every other product as they were.
C6_PatchFrame ==
    [][ (request'.op = "PATCH" /\ response'.status = HTTP_200_OK) =>
          /\ Len(products') = Len(products)
          /\ next_id' = next_id
          /\ \E j \in 1..Len(products) : products[j].id = request'.id
          /\ \A j \in 1..Len(products) :
                IF products[j].id = request'.id
                THEN /\ products'[j].id = products[j].id
                     /\ \A f \in Fields :
                           products'[j][f] =
                              IF f \in DOMAIN request'.body
                              THEN request'.body[f]
                              ELSE products[j][f]
                ELSE products'[j] = products[j]
      ]_vars

\* A patch named description as null and did not name price: the product
\* has no description and still has its price.
C6_Witness ==
    /\ request.op = "PATCH"
    /\ response.status = HTTP_200_OK
    /\ "description" \in DOMAIN request.body
    /\ request.body["description"] = None
    /\ "price" \notin DOMAIN request.body
    /\ \E j \in 1..Len(products) :
          /\ products[j].id = request.id
          /\ products[j].description = None
          /\ products[j].price = SeedProducts[j].price

\* C7: a replace of a present id with a valid body succeeds, keeps the
\* length of the list, puts the new record at the position of the old one
\* and leaves the others alone; a get of that id right after it returns
\* the id and exactly the fields of the body.
C7_ReplaceThenGet ==
    [][ /\ ( /\ request'.op = "PUT"
             /\ request'.id \in Ids(products)
             /\ request'.body \in ValidBodies )
           => /\ response'.status = HTTP_200_OK
              /\ Len(products') = Len(products)
              /\ \A j \in 1..Len(products) :
                    IF products[j].id = request'.id
                    THEN /\ products'[j].id = request'.id
                         /\ FieldsFrom(products'[j], request'.body)
                    ELSE products'[j] = products[j]
        /\ ( /\ request.op = "PUT"
             /\ response.status = HTTP_200_OK
             /\ request'.op = "GET"
             /\ request'.id = request.id )
           => /\ response'.status = HTTP_200_OK
              /\ response'.product # None
              /\ response'.product[1].id = request.id
              /\ FieldsFrom(response'.product[1], request.body)
      ]_vars

\* Product 3 was replaced by the cup, and the get that followed returned it.
C7_Witness ==
    /\ handled = 2
    /\ request.op = "GET"
    /\ request.id = 3
    /\ response.status = HTTP_200_OK
    /\ response.product[1].id = 3
    /\ response.product[1].name = Some("Cup")
    /\ response.product[1].description = None
    /\ Len(products) = Len(SeedProducts)

\* C8: a delete of a present id succeeds and removes that product and no
\* other, the rest keeping their order; no product ever has a deleted id
\* again, and a get of a deleted id is answered 404 at any later point.
C8_DeleteRemoves ==
    [][ /\ (request'.op = "DELETE" /\ request'.id \in Ids(products)) =>
              /\ response'.status = HTTP_204_NO_CONTENT
              /\ Len(products') = Len(products) - 1
              /\ \E i \in 1..Len(products) :
                    /\ products[i].id = request'.id
                    /\ \A j \in 1..Len(products') :
                          products'[j] = IF j < i THEN products[j] ELSE products[j + 1]
        /\ \A d \in deleted' : d \notin Ids(products')
        /\ (request'.op = "GET" /\ request'.id \in deleted') =>
              response'.status = HTTP_404_NOT_FOUND
      ]_vars

\* A product was deleted, another was created, and the get of the deleted
\* id that followed was answered 404.
C8_Witness ==
    /\ handled = 3
    /\ request.op = "GET"
    /\ request.id \in deleted
    /\ response.status = HTTP_404_NOT_FOUND
    /\ next_id > SeedNextId
    /\ Len(products) = Len(SeedProducts)

\* C9: a create with a valid body appends exactly the product it returns,
\* whose fields are those of the body with description None when the body
\* has none; a get of the returned id right after it returns that product.
C9_CreateThenGet ==
    [][ /\ (request'.op = "POST" /\ request'.body \in ValidBodies) =>
              /\ response'.status = HTTP_201_CREATED
              /\ response'.product # None
              /\ FieldsFrom(response'.product[1], request'.body)
              /\ Len(products') = Len(products) + 1
              /\ products'[Len(products')] = response'.product[1]
              /\ \A j \in 1..Len(products) : products'[j] = products[j]
        /\ ( /\ request.op = "POST"
             /\ response.status = HTTP_201_CREATED
             /\ request'.op = "GET"
             /\ request'.id = response.product[1].id )
           => /\ response'.status = HTTP_200_OK
              /\ response'.product = response.product
      ]_vars

\* The cup was created without a description, and the get of id 5 that
\* followed returned it with description None.
C9_Witness ==
    /\ handled = 2
    /\ request.op = "GET"
    /\ request.id = 5
    /\ response.status = HTTP_200_OK
    /\ response.product[1].name = Some("Cup")
    /\ response.product[1].description = None
    /\ products[Len(products)] = response.product[1]

\* C10: with several create requests in flight, a coroutine that has read
\* the counter holds the thread until it returns, so no other request runs
\* between its read and its changes; the ids returned are pairwise distinct,
\* and whenever the thread is free the counter and the list have grown by
\* the number of requests that returned.
C10_CreatesAtomic ==
    LET done == {t \in DOMAIN tasks : tasks[t].pc = "done"}
        inside == {t \in DOMAIN tasks : tasks[t].pc \in {"append", "increment", "return"}}
    IN
    /\ \A t \in inside : running = t
    /\ \A t, u \in done : t # u => tasks[t].product[1].id # tasks[u].product[1].id
    /\ running = 0 =>
          /\ next_id = SeedNextId + Cardinality(done)
          /\ Len(products) = Len(SeedProducts) + Cardinality(done)
          /\ \A t \in done : tasks[t].product[1] \in {products[i] : i \in 1..Len(products)}

\* All the requests in flight have returned.
C10_Witness ==
    /\ DOMAIN tasks # {}
    /\ \A t \in DOMAIN tasks : tasks[t].pc = "done"
    /\ Len(products) = Len(SeedProducts) + NumTasks

====
